---- MODULE Spec2Model ----
(***************************************************************************)
(* Model of cmr_token_creator.py: an AWS Lambda that reads the EDL         *)
(* credentials from SSM, requests a bearer token from Earthdata Login      *)
(* (revoking the existing tokens and retrying once on max_token_limit)     *)
(* and stores the token in the SSM parameter bearer--edl--token.           *)
(*                                                                         *)
(* One action per external call of the program; each action also runs the  *)
(* local code that follows the call up to the next external call.          *)
(***************************************************************************)
EXTENDS Integers, Sequences, FiniteSets, TLC

(***************************************************************************)
(* Bounds of the model.                                                    *)
(***************************************************************************)
\* Number of invocations of the Lambda that are followed.
MaxRuns == 2
\* Number of live tokens EDL allows per user before it answers max_token_limit.
TokenCap == 2

\* Invocation slots.  Spec follows non-overlapping invocations in slot 1.
Slots == {1, 2}
\* The event prefixes the Lambda is invoked with.
Prefixes == {"uds", "sit"}

(***************************************************************************)
(* Values of the program.                                                  *)
(***************************************************************************)
\* Python False, the value generate_token returns on failure.  Tokens are
\* the positive integers, so that False is a value of another kind.
PyFalse == 0
\* isinstance(v, str): what botocore's parameter validation asks of Value.
IsStr(v) == v # PyFalse
\* Python truthiness of a return value of generate_token ("if not token").
Truthy(v) == v # PyFalse

TOKEN_PARAM == "bearer--edl--token"
USERNAME_PARAM == "edl_username"
PASSWORD_PARAM == "edl_password"
MAX_TOKEN_LIMIT == "max_token_limit"
OTHER_ERROR == "invalid_credentials"

MSG_ATTEMPT == "Attempting to create token."
MSG_EXITING == "Program exiting."
MSG_CREDS_OK == "Retrieved EDL username and password."
MSG_CREDS_ERR == "Could not retrieve EDL credentials from SSM Parameter Store."
MSG_TOKEN_ERR == "Error encountered when trying to retrieve bearer token from EDL."
MSG_TOKEN_OK == "Successfully generated EDL bearer token."
MSG_STORE_OK == "EDL bearer token has been stored as a secure string in SSM Parameter Store."
MSG_STORE_ERR == "Could not store EDL bearer token in SSM Parameter Store."
MSG_CLIENT_ERROR == "botocore.exceptions.ClientError"

Info(m) == [level |-> "INFO", msg |-> m]
Error(m) == [level |-> "ERROR", msg |-> m]

\* One external request, as recorded in the run's request log.
Call(op, tok, name) == [op |-> op, tok |-> tok, name |-> name]

VARIABLES
  pc,          \* pc[r]: the external call run r is about to make
  status,      \* status[r]: "running", "exit0" (handler returned),
               \*   "exit1" (sys.exit(1)), or the exception that left the handler:
               \*   "RequestException", "KeyError", "ParamValidationError"
  prefix,      \* prefix[r]: event["prefix"]
  creds,       \* creds[r]: <<username, password>> read so far
  token,       \* token[r]: the local `token` of lambda_handler
  firstResp,   \* firstResp[r]: token_data of generate_token
  retryResp,   \* retryResp[r]: token_data of the retry in handle_token_error
  listed,      \* listed[r]: token_data of handle_token_error, the list response
  rest,        \* rest[r]: entries of the list response still to iterate
  key,         \* key[r]: KeyId resolved by describe_key
  calls,       \* calls[r]: external requests issued by run r, in order
  puts,        \* puts[r]: the put_parameter requests of run r, in order
  logs,        \* logs[r]: log lines emitted by run r, in order
  live,        \* EDL: the user's tokens that are currently valid
  nextTok,     \* EDL: the next token value it mints
  ssm_response,\* ssm_response[r]: Version in the answer to put_parameter (0: none)
  ssm,         \* SSM Parameter Store: name -> parameter
  invocations  \* number of invocations so far

vars == <<pc, status, prefix, creds, token, firstResp, retryResp, listed, rest, key,
          calls, puts, logs, ssm_response, live, nextTok, ssm, invocations>>

\* A JSON object without fields.
EmptyJson == <<>>

(***************************************************************************)
(* SSM Parameter Store and KMS.                                            *)
(***************************************************************************)
ParamNames == {USERNAME_PARAM, PASSWORD_PARAM, TOKEN_PARAM}

\* A parameter that does not exist has Version 0.
NoParam == [Value |-> PyFalse, Type |-> "", KeyId |-> "", Version |-> 0]
CredParam == [Value |-> 1, Type |-> "SecureString", KeyId |-> "alias/aws/ssm", Version |-> 1]

\* The alias of one venue written into the code instead of the event's prefix.
KeyAliasFixed(p) == "alias/" \o "uds" \o "-ssm-parameter-store"

\* store_token, line 127: alias/{prefix}-ssm-parameter-store
KeyAlias(p) == "alias/" \o p \o "-ssm-parameter-store"

\* KMS: KeyMetadata.KeyId of the key an alias points to.
KmsKeyId(alias) ==
  CASE alias = "alias/uds-ssm-parameter-store" -> "key-uds"
    [] alias = "alias/sit-ssm-parameter-store" -> "key-sit"
    [] OTHER -> "key-unknown"

\* The request without Overwrite, as put_parameter defaults to.
PutRequestNoOverwrite(tok, k) ==
  [Name |-> TOKEN_PARAM, Description |-> "Temporary EDL bearer token",
   Value |-> tok, Type |-> "SecureString", KeyId |-> k,
   Overwrite |-> FALSE, Tier |-> "Standard"]

\* store_token, lines 131-139: the put_parameter request.
PutRequest(tok, k) ==
  [Name |-> TOKEN_PARAM, Description |-> "Temporary EDL bearer token",
   Value |-> tok, Type |-> "SecureString", KeyId |-> k,
   Overwrite |-> TRUE, Tier |-> "Standard"]

\* SSM PutParameter: an existing parameter is replaced only with Overwrite.
PutAllowed(store, req) == req.Overwrite \/ store[req.Name].Version = 0

\* A write that leaves alone a parameter that exists already.
PutParameterIfAbsent(store, req) ==
  IF store[req.Name].Version # 0 THEN store
  ELSE [store EXCEPT ![req.Name] =
          [Value |-> req.Value, Type |-> req.Type, KeyId |-> req.KeyId, Version |-> 1]]

\* store_token, lines 131-139: what put_parameter does to the store.
PutParameter(store, req) ==
  [store EXCEPT ![req.Name] =
     [Value |-> req.Value, Type |-> req.Type, KeyId |-> req.KeyId,
      Version |-> store[req.Name].Version + 1]]

(***************************************************************************)
(* Earthdata Login.                                                        *)
(***************************************************************************)
\* The JSON answers POST /api/users/token can give in a state of the provider,
\* each as <<response, live', nextTok'>>: a new token while the user is below
\* the cap, max_token_limit at the cap, and at any time another error, an
\* error that also carries a token field, or an object with neither field.
TokenResponses ==
  (IF Cardinality(live) < TokenCap
     THEN {<<[access_token |-> nextTok], live \cup {nextTok}, nextTok + 1>>}
     ELSE {<<[error |-> MAX_TOKEN_LIMIT], live, nextTok>>})
  \cup {<<[error |-> OTHER_ERROR], live, nextTok>>,
        <<[error |-> OTHER_ERROR, access_token |-> nextTok], live, nextTok + 1>>,
        <<EmptyJson, live, nextTok>>}

\* The entry of GET /api/users/tokens for a token, and an entry without one.
TokenEntry(t) == [access_token |-> t]
OtherEntry == [expiration_date |-> "12/31/2026"]

RECURSIVE Ascending(_)
\* The entries of a set of tokens, in ascending order of the tokens.
Ascending(S) ==
  IF S = {} THEN <<>>
  ELSE LET m == CHOOSE a \in S : \A b \in S : a <= b
       IN <<TokenEntry(m)>> \o Ascending(S \ {m})

\* s with e inserted after its first i elements.
InsertAt(s, i, e) == SubSeq(s, 1, i) \o <<e>> \o SubSeq(s, i + 1, Len(s))

\* The JSON arrays GET /api/users/tokens can answer: the live tokens, and
\* possibly one entry that has no access_token.
ListResponses ==
  LET l == Ascending(live)
  IN {l} \cup {InsertAt(l, i, OtherEntry) : i \in 0..Len(l)}

(***************************************************************************)
(* The decisions of the program, as functions of the JSON it received.     *)
(***************************************************************************)
\* The test of the error code inverted: any error but max_token_limit remediates.
GenerateTokenBranchAnyError(token_data) ==
  IF "error" \in DOMAIN token_data
    THEN IF token_data.error # MAX_TOKEN_LIMIT THEN "handle_token_error"
         ELSE "return_false"
    ELSE IF "access_token" \in DOMAIN token_data THEN "token" ELSE "KeyError"

\* The test for the error field inverted: a response without error remediates.
GenerateTokenBranchNoError(token_data) ==
  IF "error" \notin DOMAIN token_data THEN "handle_token_error"
  ELSE "return_false"

\* The token field looked at before the error field.
GenerateTokenBranchTokenFirst(token_data) ==
  IF "access_token" \in DOMAIN token_data THEN "token"
  ELSE IF "error" \notin DOMAIN token_data THEN "KeyError"
  ELSE IF token_data.error = MAX_TOKEN_LIMIT THEN "handle_token_error"
  ELSE "return_false"

\* generate_token, lines 90-97: what the first response leads to.
GenerateTokenBranch(token_data) ==
  IF "error" \in DOMAIN token_data
    THEN IF token_data.error = MAX_TOKEN_LIMIT THEN "handle_token_error"
         ELSE "return_false"
    ELSE IF "access_token" \in DOMAIN token_data THEN "token" ELSE "KeyError"

\* The token field of the retried response looked at before its error field.
RetryBranchTokenFirst(token_data) ==
  IF "access_token" \in DOMAIN token_data THEN "token"
  ELSE IF "error" \in DOMAIN token_data THEN "return_false" ELSE "KeyError"

\* handle_token_error, lines 115-119: what the retried response leads to.
RetryBranch(token_data) ==
  IF "error" \in DOMAIN token_data THEN "return_false"
  ELSE IF "access_token" \in DOMAIN token_data THEN "token" ELSE "KeyError"

\* A loop that ends at the first entry without access_token (break for continue).
SkipEntriesBreak(entries) ==
  IF entries = <<>> \/ "access_token" \in DOMAIN Head(entries) THEN entries
  ELSE <<>>

RECURSIVE SkipEntries(_)
\* handle_token_error, lines 108-109: the loop passes over the entries that
\* have no access_token until it reaches one that has.
SkipEntries(entries) ==
  IF entries = <<>> THEN <<>>
  ELSE IF "access_token" \in DOMAIN Head(entries) THEN entries
  ELSE SkipEntries(Tail(entries))

\* The retry made by calling generate_token again instead of one more POST.
AfterEntriesRecursive(entries) ==
  IF SkipEntries(entries) = <<>> THEN "PostToken" ELSE "Revoke"

\* The tokens listed again after the loop, until none is left.
AfterEntriesListAgain(entries) ==
  IF entries = <<>> THEN "RetryPost"
  ELSE IF SkipEntries(entries) = <<>> THEN "GetTokens" ELSE "Revoke"

\* Where handle_token_error goes once `entries` are left to iterate.
AfterEntries(entries) == IF SkipEntries(entries) = <<>> THEN "RetryPost" ELSE "Revoke"

Logged(r, lines) == [logs EXCEPT ![r] = @ \o lines]
Called(r, c) == [calls EXCEPT ![r] = Append(@, c)]
Ended(r, st) == /\ pc' = [pc EXCEPT ![r] = "Done"]
                /\ status' = [status EXCEPT ![r] = st]

\* A handler that catches every exception and goes on to store_token.
UncaughtSwallowed(r, e) ==
  /\ pc' = [pc EXCEPT ![r] = "DescribeKey"]
  /\ status' = [status EXCEPT ![r] = e]

\* lambda_handler, lines 32-41: an exception that is no ClientError is caught
\* nowhere and ends the handler.
Uncaught(r, e) == Ended(r, e)

\* The exceptions that leave the handler uncaught.
Unhandled(r) == status[r] \in {"RequestException", "KeyError", "ParamValidationError"}

\* The error is logged but not raised again: the handler carries on.
CredsErrorSwallowed(r) ==
  /\ logs' = Logged(r, <<Error(MSG_CREDS_ERR), Error(MSG_CLIENT_ERROR)>>)
  /\ pc' = [pc EXCEPT ![r] = "PostToken"]
  /\ UNCHANGED status

\* get_edl_creds, lines 80-83, and lambda_handler, lines 39-41: a ClientError
\* of SSM is logged and raised again, and the handler exits with 1.
CredsError(r) ==
  /\ logs' = Logged(r, <<Error(MSG_CREDS_ERR), Error(MSG_CLIENT_ERROR), Info(MSG_EXITING)>>)
  /\ Ended(r, "exit1")

\* The error is logged but not raised again: store_token carries on.
StoreErrorSwallowed(r) ==
  /\ logs' = Logged(r, <<Error(MSG_STORE_ERR), Error(MSG_CLIENT_ERROR)>>)
  /\ pc' = [pc EXCEPT ![r] = "PutParameter"]
  /\ UNCHANGED status

\* store_token, lines 141-144, and lambda_handler, lines 39-41: a ClientError
\* of KMS or SSM is logged and raised again, and the handler exits with 1.
StoreError(r) ==
  /\ logs' = Logged(r, <<Error(MSG_STORE_ERR), Error(MSG_CLIENT_ERROR), Info(MSG_EXITING)>>)
  /\ Ended(r, "exit1")

(***************************************************************************)
(* Initial state.                                                          *)
(***************************************************************************)
Init ==
  /\ pc = [r \in Slots |-> "NotInvoked"]
  /\ status = [r \in Slots |-> "running"]
  /\ prefix = [r \in Slots |-> ""]
  /\ creds = [r \in Slots |-> <<>>]
  /\ token = [r \in Slots |-> PyFalse]
  /\ firstResp = [r \in Slots |-> EmptyJson]
  /\ retryResp = [r \in Slots |-> EmptyJson]
  /\ listed = [r \in Slots |-> <<>>]
  /\ rest = [r \in Slots |-> <<>>]
  /\ key = [r \in Slots |-> ""]
  /\ calls = [r \in Slots |-> <<>>]
  /\ puts = [r \in Slots |-> <<>>]
  /\ logs = [r \in Slots |-> <<>>]
  /\ ssm_response = [r \in Slots |-> 0]
  /\ live \in SUBSET (1..TokenCap)
  /\ nextTok = TokenCap + 1
  /\ \E old \in {NoParam,
                 [Value |-> 1, Type |-> "SecureString", KeyId |-> "key-uds", Version |-> 1]} :
       ssm = [n \in ParamNames |-> IF n = TOKEN_PARAM THEN old ELSE CredParam]
  /\ invocations = 0

(***************************************************************************)
(* lambda_handler, lines 24-31: an invocation with event {"prefix": p}.    *)
(* Every invocation starts with fresh locals.                              *)
(***************************************************************************)
lambda_handler(r, p) ==
  /\ pc[r] \in {"NotInvoked", "Done"}
  /\ invocations < MaxRuns
  /\ invocations' = invocations + 1
  /\ pc' = [pc EXCEPT ![r] = "GetUsername"]
  /\ status' = [status EXCEPT ![r] = "running"]
  /\ prefix' = [prefix EXCEPT ![r] = p]
  /\ creds' = [creds EXCEPT ![r] = <<>>]
  /\ token' = [token EXCEPT ![r] = PyFalse]
  /\ firstResp' = [firstResp EXCEPT ![r] = EmptyJson]
  /\ retryResp' = [retryResp EXCEPT ![r] = EmptyJson]
  /\ listed' = [listed EXCEPT ![r] = <<>>]
  /\ rest' = [rest EXCEPT ![r] = <<>>]
  /\ key' = [key EXCEPT ![r] = ""]
  /\ calls' = [calls EXCEPT ![r] = <<>>]
  /\ puts' = [puts EXCEPT ![r] = <<>>]
  /\ logs' = [logs EXCEPT ![r] = <<Info(MSG_ATTEMPT)>>]
  /\ ssm_response' = [ssm_response EXCEPT ![r] = 0]
  /\ UNCHANGED <<live, nextTok, ssm>>

(***************************************************************************)
(* get_edl_creds, line 76: get_parameter(Name="edl_username").             *)
(***************************************************************************)
GetUsername(r) ==
  /\ pc[r] = "GetUsername"
  /\ calls' = Called(r, Call("get_parameter", PyFalse, USERNAME_PARAM))
  /\ \/ /\ ssm[USERNAME_PARAM].Version > 0
        /\ creds' = [creds EXCEPT ![r] = <<ssm[USERNAME_PARAM].Value>>]
        /\ pc' = [pc EXCEPT ![r] = "GetPassword"]
        /\ UNCHANGED <<status, logs>>
     \/ \* ClientError: logged and raised (80-83), caught by lambda_handler (39-41)
        /\ CredsError(r)
        /\ UNCHANGED creds
  /\ UNCHANGED <<ssm_response, prefix, token, firstResp, retryResp, listed, rest, key, puts,
                 live, nextTok, ssm, invocations>>

(***************************************************************************)
(* get_edl_creds, lines 77-79: get_parameter(Name="edl_password").         *)
(***************************************************************************)
GetPassword(r) ==
  /\ pc[r] = "GetPassword"
  /\ calls' = Called(r, Call("get_parameter", PyFalse, PASSWORD_PARAM))
  /\ \/ /\ ssm[PASSWORD_PARAM].Version > 0
        /\ creds' = [creds EXCEPT ![r] = Append(@, ssm[PASSWORD_PARAM].Value)]
        /\ logs' = Logged(r, <<Info(MSG_CREDS_OK)>>)
        /\ pc' = [pc EXCEPT ![r] = "PostToken"]
        /\ UNCHANGED status
     \/ /\ CredsError(r)
        /\ UNCHANGED creds
  /\ UNCHANGED <<ssm_response, prefix, token, firstResp, retryResp, listed, rest, key, puts,
                 live, nextTok, ssm, invocations>>

(***************************************************************************)
(* generate_token, lines 88-99: the first POST /api/users/token.  On any   *)
(* return of generate_token, lambda_handler goes on to store_token (35).   *)
(***************************************************************************)
PostToken(r) ==
  /\ pc[r] = "PostToken"
  /\ calls' = Called(r, Call("post_token", PyFalse, ""))
  /\ \/ \E a \in TokenResponses :
          LET token_data == a[1]
              branch == GenerateTokenBranch(token_data)
          IN /\ live' = a[2]
             /\ nextTok' = a[3]
             /\ firstResp' = [firstResp EXCEPT ![r] = token_data]
             /\ \/ /\ branch = "handle_token_error"
                   /\ pc' = [pc EXCEPT ![r] = "GetTokens"]
                   /\ UNCHANGED <<status, token, logs>>
                \/ /\ branch = "return_false"
                   /\ logs' = Logged(r, <<Error(MSG_TOKEN_ERR)>>)
                   /\ token' = [token EXCEPT ![r] = PyFalse]
                   /\ pc' = [pc EXCEPT ![r] = "DescribeKey"]
                   /\ UNCHANGED status
                \/ /\ branch = "token"
                   /\ token' = [token EXCEPT ![r] = token_data.access_token]
                   /\ logs' = Logged(r, <<Info(MSG_TOKEN_OK)>>)
                   /\ pc' = [pc EXCEPT ![r] = "DescribeKey"]
                   /\ UNCHANGED status
                \/ \* token_data["access_token"] raises KeyError (97)
                   /\ branch = "KeyError"
                   /\ Uncaught(r, "KeyError")
                   /\ UNCHANGED <<token, logs>>
     \/ \* requests raises: nothing catches it
        /\ Uncaught(r, "RequestException")
        /\ UNCHANGED <<token, firstResp, logs, live, nextTok>>
  /\ UNCHANGED <<ssm_response, prefix, creds, retryResp, listed, rest, key, puts, ssm, invocations>>

(***************************************************************************)
(* handle_token_error, lines 106-109: GET /api/users/tokens.               *)
(***************************************************************************)
GetTokens(r) ==
  /\ pc[r] = "GetTokens"
  /\ calls' = Called(r, Call("get_tokens", PyFalse, ""))
  /\ \/ \E token_data \in ListResponses :
          /\ listed' = [listed EXCEPT ![r] = token_data]
          /\ rest' = [rest EXCEPT ![r] = SkipEntries(token_data)]
          /\ pc' = [pc EXCEPT ![r] = AfterEntries(token_data)]
          /\ UNCHANGED status
     \/ /\ Uncaught(r, "RequestException")
        /\ UNCHANGED <<listed, rest>>
  /\ UNCHANGED <<ssm_response, prefix, creds, token, firstResp, retryResp, key, puts, logs,
                 live, nextTok, ssm, invocations>>

(***************************************************************************)
(* handle_token_error, lines 108-110: POST /api/users/revoke_token for the *)
(* next entry that has an access_token.  The response is not looked at.    *)
(***************************************************************************)
Revoke(r) ==
  /\ pc[r] = "Revoke"
  /\ LET t == Head(rest[r]).access_token
     IN /\ calls' = Called(r, Call("revoke_token", t, ""))
        /\ \/ \* the provider revokes the token
              /\ live' = live \ {t}
              /\ rest' = [rest EXCEPT ![r] = SkipEntries(Tail(@))]
              /\ pc' = [pc EXCEPT ![r] = AfterEntries(Tail(rest[r]))]
              /\ UNCHANGED status
           \/ \* the provider answers with an error status and revokes nothing
              /\ t \in live
              /\ rest' = [rest EXCEPT ![r] = SkipEntries(Tail(@))]
              /\ pc' = [pc EXCEPT ![r] = AfterEntries(Tail(rest[r]))]
              /\ UNCHANGED <<status, live>>
           \/ /\ Uncaught(r, "RequestException")
              /\ UNCHANGED <<rest, live>>
  /\ UNCHANGED <<ssm_response, prefix, creds, token, firstResp, retryResp, listed, key, puts, logs,
                 nextTok, ssm, invocations>>

(***************************************************************************)
(* handle_token_error, lines 113-119, and generate_token, lines 98-99: the *)
(* second POST /api/users/token.                                           *)
(***************************************************************************)
RetryPost(r) ==
  /\ pc[r] = "RetryPost"
  /\ calls' = Called(r, Call("post_token", PyFalse, ""))
  /\ \/ \E a \in TokenResponses :
          LET token_data == a[1]
              branch == RetryBranch(token_data)
          IN /\ live' = a[2]
             /\ nextTok' = a[3]
             /\ retryResp' = [retryResp EXCEPT ![r] = token_data]
             /\ \/ \* return False (117); generate_token logs line 98 all the same
                   /\ branch = "return_false"
                   /\ logs' = Logged(r, <<Error(MSG_TOKEN_ERR), Info(MSG_TOKEN_OK)>>)
                   /\ token' = [token EXCEPT ![r] = PyFalse]
                   /\ pc' = [pc EXCEPT ![r] = "DescribeKey"]
                   /\ UNCHANGED status
                \/ /\ branch = "token"
                   /\ token' = [token EXCEPT ![r] = token_data.access_token]
                   /\ logs' = Logged(r, <<Info(MSG_TOKEN_OK)>>)
                   /\ pc' = [pc EXCEPT ![r] = "DescribeKey"]
                   /\ UNCHANGED status
                \/ /\ branch = "KeyError"
                   /\ Uncaught(r, "KeyError")
                   /\ UNCHANGED <<token, logs>>
     \/ /\ Uncaught(r, "RequestException")
        /\ UNCHANGED <<token, retryResp, logs, live, nextTok>>
  /\ UNCHANGED <<ssm_response, prefix, creds, firstResp, listed, rest, key, puts, ssm, invocations>>

(***************************************************************************)
(* store_token, lines 126-128: describe_key of alias/{prefix}-ssm-...      *)
(***************************************************************************)
DescribeKey(r) ==
  /\ pc[r] = "DescribeKey"
  /\ calls' = Called(r, Call("describe_key", PyFalse, KeyAlias(prefix[r])))
  /\ \/ /\ key' = [key EXCEPT ![r] = KmsKeyId(KeyAlias(prefix[r]))]
        /\ pc' = [pc EXCEPT ![r] = "PutParameter"]
        /\ UNCHANGED <<status, logs>>
     \/ \* ClientError: logged and raised (141-144), caught by lambda_handler
        /\ StoreError(r)
        /\ UNCHANGED key
  /\ UNCHANGED <<ssm_response, prefix, creds, token, firstResp, retryResp, listed, rest, puts,
                 live, nextTok, ssm, invocations>>

(***************************************************************************)
(* store_token, lines 130-144, and lambda_handler, lines 36-41:            *)
(* put_parameter.  botocore validates the request before it sends it and   *)
(* raises ParamValidationError, which is no ClientError, for a Value that  *)
(* is not a string.                                                        *)
(***************************************************************************)
PutParam(r) ==
  /\ pc[r] = "PutParameter"
  /\ LET req == PutRequest(token[r], key[r])
     IN /\ calls' = Called(r, Call("put_parameter", req.Value, req.Name))
        /\ puts' = [puts EXCEPT ![r] = Append(@, req)]
        /\ \/ /\ ~IsStr(req.Value)
              /\ Uncaught(r, "ParamValidationError")
              /\ UNCHANGED <<ssm, logs, ssm_response>>
           \/ /\ IsStr(req.Value)
              /\ PutAllowed(ssm, req)
              /\ ssm' = PutParameter(ssm, req)
              /\ ssm_response' = [ssm_response EXCEPT ![r] = ssm'[req.Name].Version]
              /\ IF Truthy(token[r])
                   THEN /\ logs' = Logged(r, <<Info(MSG_STORE_OK)>>)
                        /\ Ended(r, "exit0")
                   ELSE /\ logs' = Logged(r, <<Info(MSG_STORE_OK), Info(MSG_EXITING)>>)
                        /\ Ended(r, "exit1")
           \/ \* ClientError of SSM
              /\ IsStr(req.Value)
              /\ StoreError(r)
              /\ UNCHANGED <<ssm, ssm_response>>
  /\ UNCHANGED <<prefix, creds, token, firstResp, retryResp, listed, rest, key,
                 live, nextTok, invocations>>

(***************************************************************************)
(* Specifications.                                                         *)
(***************************************************************************)
Run(r) ==
  \/ \E p \in Prefixes : lambda_handler(r, p)
  \/ GetUsername(r)
  \/ GetPassword(r)
  \/ PostToken(r)
  \/ GetTokens(r)
  \/ Revoke(r)
  \/ RetryPost(r)
  \/ DescribeKey(r)
  \/ PutParam(r)

\* Invocations that do not overlap: the schedule the Lambda is meant for.
Next == Run(1)

Spec == Init /\ [][Next]_vars

\* Invocations that the scheduler lets overlap: the steps of two runs, one
\* invocation in each slot, interleave in any order.
NextOverlap == \E r \in Slots : pc[r] # "Done" /\ Run(r)

SpecOverlap == Init /\ [][NextOverlap]_vars

\* Every external call returns or raises in the end, and the scheduler invokes
\* the Lambda again: no run waits forever.
SpecFair == Init /\ [][Next]_vars /\ WF_vars(Next)

(***************************************************************************)
(* Observations on a run, used by the properties below.                    *)
(***************************************************************************)
IsHttp(c) == c.op \in {"post_token", "get_tokens", "revoke_token"}
\* The requests run r sent to the identity provider, in order.
HttpCalls(r) == SelectSeq(calls[r], IsHttp)

IsOp(c, op) == c.op = op
\* The number of requests `op` of run r.
Count(r, op) == Cardinality({i \in 1..Len(calls[r]) : calls[r][i].op = op})

RECURSIVE RevokesFor(_)
\* One revoke request for every entry of a list response that has an
\* access_token, in the order of the list.
RevokesFor(entries) ==
  IF entries = <<>> THEN <<>>
  ELSE (IF "access_token" \in DOMAIN Head(entries)
          THEN <<Call("revoke_token", Head(entries).access_token, "")>>
          ELSE <<>>) \o RevokesFor(Tail(entries))

IsPrefix(s, t) == Len(s) <= Len(t) /\ SubSeq(t, 1, Len(s)) = s

\* generate_token has returned to lambda_handler in run r.
Returned(r) ==
  \/ pc[r] \in {"DescribeKey", "PutParameter"}
  \/ pc[r] = "Done" /\ Count(r, "describe_key") > 0

HasError(resp) == "error" \in DOMAIN resp
HasToken(resp) == "access_token" \in DOMAIN resp
FirstIsMaxLimit(r) == HasError(firstResp[r]) /\ firstResp[r].error = "max_token_limit"

\* The provider requests of a remediation whose list response was `entries`.
RemediationCalls(entries) ==
  <<Call("post_token", PyFalse, ""), Call("get_tokens", PyFalse, "")>>
    \o RevokesFor(entries) \o <<Call("post_token", PyFalse, "")>>

(***************************************************************************)
(* C1: When the first token response is max_token_limit, the run sends, in *)
(* this order, one list request, one revoke request for every listed entry *)
(* that has an access_token (none for the others) and a second token       *)
(* request; generate_token returns the retry's access_token if the retry   *)
(* has a token and no error, and False if the retry has an error field     *)
(* (max_token_limit included: nothing is listed or revoked again).         *)
(***************************************************************************)
C1_Remediation ==
  \A r \in Slots :
    FirstIsMaxLimit(r) =>
      /\ IsPrefix(HttpCalls(r), RemediationCalls(listed[r]))
      /\ Returned(r) =>
           /\ HttpCalls(r) = RemediationCalls(listed[r])
           /\ HasError(retryResp[r]) => token[r] = PyFalse
           /\ ~HasError(retryResp[r]) =>
                /\ HasToken(retryResp[r])
                /\ token[r] = retryResp[r].access_token
                /\ Truthy(token[r])

\* A remediation that listed two tokens and an entry without token, revoked
\* the two and got a token from the retry.
C1_Witness ==
  \E r \in Slots :
    /\ FirstIsMaxLimit(r) /\ Returned(r)
    /\ Len(listed[r]) = 3 /\ Count(r, "revoke_token") = 2
    /\ HasToken(retryResp[r]) /\ ~HasError(retryResp[r])
    /\ token[r] = retryResp[r].access_token

\* generate_token returned False in run r: the first response had an error
\* other than max_token_limit, or the retry had an error.
AcquireFailed(r) ==
  /\ Returned(r)
  /\ \/ HasError(firstResp[r]) /\ ~FirstIsMaxLimit(r)
     \/ FirstIsMaxLimit(r) /\ HasError(retryResp[r])

(***************************************************************************)
(* C2: After generate_token has returned False the run aborts without      *)
(* entering store_token: it makes no describe_key and no put_parameter     *)
(* call.                                                                   *)
(***************************************************************************)
C2_FailureSkipsStore ==
  \A r \in Slots :
    AcquireFailed(r) => Count(r, "describe_key") = 0 /\ Count(r, "put_parameter") = 0

(***************************************************************************)
(* C3: A run in which generate_token returned False ends with exit status  *)
(* 1, whatever store_token does with the value.                            *)
(***************************************************************************)
C3_FailureExitsOne ==
  \A r \in Slots :
    AcquireFailed(r) /\ pc[r] = "Done" => status[r] = "exit1"

\* The read of a credential failed in run r.
CredsFailed(r) == pc[r] = "Done" /\ Len(creds[r]) < 2 /\ Len(calls[r]) > 0

(***************************************************************************)
(* C4: If the read of edl_username or of edl_password fails, the run calls *)
(* neither the identity provider nor KMS, writes no parameter, and exits   *)
(* with status 1.                                                          *)
(***************************************************************************)
C4_CredsFailFast ==
  \A r \in Slots :
    CredsFailed(r) =>
      /\ status[r] = "exit1"
      /\ \A i \in 1..Len(calls[r]) : calls[r][i].op = "get_parameter"
      /\ puts[r] = <<>>

\* The read of edl_password failed after edl_username had been read.
C4_Witness ==
  \E r \in Slots : CredsFailed(r) /\ Len(creds[r]) = 1 /\ Len(calls[r]) = 2

(***************************************************************************)
(* C5: When the first token response carries access_token and no error,    *)
(* generate_token returns exactly that value and the run sends no list,    *)
(* no revoke and no second token request.                                  *)
(***************************************************************************)
C5_FirstSuccess ==
  \A r \in Slots :
    HasToken(firstResp[r]) /\ ~HasError(firstResp[r]) =>
      /\ Returned(r) \/ pc[r] = "Done"
      /\ token[r] = firstResp[r].access_token
      /\ Truthy(token[r])
      /\ HttpCalls(r) = <<Call("post_token", PyFalse, "")>>

C5_Witness ==
  \E r \in Slots :
    /\ HasToken(firstResp[r]) /\ ~HasError(firstResp[r])
    /\ pc[r] = "DescribeKey" /\ token[r] = firstResp[r].access_token

(***************************************************************************)
(* C6: When the first token response has an error other than               *)
(* max_token_limit, generate_token returns False and the run sends no      *)
(* list, no revoke and no second token request.                            *)
(***************************************************************************)
C6_FirstOtherError ==
  \A r \in Slots :
    HasError(firstResp[r]) /\ ~FirstIsMaxLimit(r) =>
      /\ Returned(r) \/ pc[r] = "Done"
      /\ token[r] = PyFalse
      /\ HttpCalls(r) = <<Call("post_token", PyFalse, "")>>

C6_Witness ==
  \E r \in Slots :
    /\ HasError(firstResp[r]) /\ ~FirstIsMaxLimit(r)
    /\ pc[r] = "DescribeKey" /\ token[r] = PyFalse

(***************************************************************************)
(* C7: A run sends at most two token requests and at most one list         *)
(* request, and it sends a second token request only after the first one   *)
(* was answered with max_token_limit.                                      *)
(***************************************************************************)
C7_AtMostOneRetry ==
  \A r \in Slots :
    /\ Count(r, "post_token") <= 2
    /\ Count(r, "get_tokens") <= 1
    /\ Count(r, "post_token") = 2 => FirstIsMaxLimit(r) /\ Count(r, "get_tokens") = 1

\* A run that has sent its second token request.
C7_Witness ==
  \E r \in Slots : Count(r, "post_token") = 2 /\ pc[r] = "DescribeKey"

\* The token responses run r has received.
Responses(r) == {firstResp[r], retryResp[r]}

\* Position of the first request `op` of run r (0 if there is none).
FirstIndex(r, op) ==
  IF Count(r, op) = 0 THEN 0
  ELSE CHOOSE i \in 1..Len(calls[r]) :
         /\ calls[r][i].op = op
         /\ \A j \in 1..(i - 1) : calls[r][j].op # op

(***************************************************************************)
(* C8: A run exits with status 0 only if it got a token from the provider  *)
(* and bearer--edl--token now holds exactly that token under the key id    *)
(* that this run resolved from alias/{prefix}-ssm-parameter-store for the  *)
(* prefix of its event; describe_key precedes put_parameter and its result *)
(* is the KeyId of the put request.                                        *)
(***************************************************************************)
C8_ExitZeroMeansStored ==
  \A r \in Slots :
    status[r] = "exit0" =>
      /\ Truthy(token[r])
      /\ \E resp \in Responses(r) : HasToken(resp) /\ resp.access_token = token[r]
      /\ ssm[TOKEN_PARAM].Value = token[r]
      /\ ssm[TOKEN_PARAM].KeyId = KmsKeyId("alias/" \o prefix[r] \o "-ssm-parameter-store")
      /\ ssm[TOKEN_PARAM].KeyId = key[r]
      /\ Count(r, "describe_key") = 1 /\ Count(r, "put_parameter") = 1
      /\ FirstIndex(r, "describe_key") < FirstIndex(r, "put_parameter")
      /\ calls[r][FirstIndex(r, "describe_key")].name
           = "alias/" \o prefix[r] \o "-ssm-parameter-store"
      /\ Len(puts[r]) = 1 /\ puts[r][1].KeyId = key[r] /\ puts[r][1].Value = token[r]

\* A run for prefix sit that exited with 0 after a remediation.
C8_Witness ==
  \E r \in Slots :
    /\ status[r] = "exit0" /\ prefix[r] = "sit"
    /\ ssm[TOKEN_PARAM].KeyId = "key-sit"
    /\ FirstIsMaxLimit(r)

\* Run r has called describe_key and got no key id from it.
KeyLookupFailed(r) == Count(r, "describe_key") > 0 /\ key[r] = ""

(***************************************************************************)
(* C9: If describe_key fails in store_token, no put_parameter is attempted *)
(* by the run, the stored parameters are left as they are and the run      *)
(* exits with status 1.                                                    *)
(***************************************************************************)
C9_KeyFailureBeforeWrite ==
  /\ [](\A r \in Slots :
          KeyLookupFailed(r) =>
            /\ pc[r] = "Done" /\ status[r] = "exit1"
            /\ puts[r] = <<>>
            /\ Count(r, "put_parameter") = 0
            /\ calls[r][Len(calls[r])].op = "describe_key")
  /\ [][\A r \in Slots : pc[r] = "DescribeKey" => ssm' = ssm]_vars

\* describe_key failed in a run that had a token to store.
C9_Witness ==
  \E r \in Slots :
    /\ KeyLookupFailed(r) /\ status[r] = "exit1"
    /\ Truthy(token[r])
    /\ ssm[TOKEN_PARAM].Version = 1

(***************************************************************************)
(* C10: store_token always writes with Overwrite, type SecureString and    *)
(* the name bearer--edl--token; a write that succeeds replaces what the    *)
(* parameter held, so that after writes of token A and then token B the    *)
(* parameter holds B.                                                      *)
(***************************************************************************)
C10_Overwrite ==
  /\ [](\A r \in Slots : \A i \in 1..Len(puts[r]) :
          /\ puts[r][i].Overwrite
          /\ puts[r][i].Type = "SecureString"
          /\ puts[r][i].Name = "bearer--edl--token")
  /\ [][\A r \in Slots :
          pc[r] = "PutParameter" /\ status'[r] = "exit0" =>
            /\ ssm'["bearer--edl--token"].Value = token[r]
            /\ ssm'["bearer--edl--token"].Type = "SecureString"
            /\ ssm'["bearer--edl--token"].Version = ssm["bearer--edl--token"].Version + 1
            /\ \A n \in ParamNames \ {"bearer--edl--token"} : ssm'[n] = ssm[n]]_vars

\* The second of two runs has overwritten the token that the first one wrote
\* over the token found at the start.
C10_Witness ==
  /\ invocations = 2
  /\ status[1] = "exit0"
  /\ ssm[TOKEN_PARAM].Version = 3
  /\ ssm[TOKEN_PARAM].Value = token[1]

(***************************************************************************)
(* C11: When two runs overlap, with their steps interleaved in any order,  *)
(* both write bearer--edl--token without lock or version check, and once   *)
(* both have exited with 0 the parameter holds the token of the run whose  *)
(* put_parameter came last, whichever run got its token first.             *)
(***************************************************************************)
C11_LastWriteWins ==
  \A r, q \in Slots :
    r # q /\ status[r] = "exit0" /\ status[q] = "exit0" =>
      /\ ssm_response[r] # ssm_response[q]
      /\ ssm_response[r] > ssm_response[q] =>
           /\ ssm[TOKEN_PARAM].Value = token[r]
           /\ ssm[TOKEN_PARAM].KeyId = key[r]
           /\ ssm[TOKEN_PARAM].Version = ssm_response[r]

\* Run 1 got its token before run 2 and wrote after it: its token is stored.
C11_Witness ==
  /\ status[1] = "exit0" /\ status[2] = "exit0"
  /\ token[1] < token[2]
  /\ ssm_response[1] > ssm_response[2]
  /\ ssm[TOKEN_PARAM].Value = token[1]

\* The tokens of the entries of a list response.
TokensOf(entries) ==
  {entries[i].access_token : i \in {j \in 1..Len(entries) : HasToken(entries[j])}}

\* The tokens run r has sent a revoke request for.
Revoked(r) ==
  {calls[r][i].tok : i \in {j \in 1..Len(calls[r]) : calls[r][j].op = "revoke_token"}}

PutFailed(r) == Count(r, "put_parameter") > 0 /\ pc[r] = "Done" /\ ssm_response[r] = 0

\* Run r has logged a line of level ERROR.
LoggedError(r) == \E i \in 1..Len(logs[r]) : logs[r][i].level = "ERROR"

(***************************************************************************)
(* C13: A run calls put_parameter at most once and only for                *)
(* bearer--edl--token; edl_username and edl_password are left as they      *)
(* were; if the put fails it is not tried again, the error is logged and   *)
(* the run exits with status 1.                                            *)
(***************************************************************************)
C13_SingleWrite ==
  \A r \in Slots :
    /\ Count(r, "put_parameter") <= 1
    /\ \A i \in 1..Len(puts[r]) : puts[r][i].Name = "bearer--edl--token"
    /\ ssm[USERNAME_PARAM] = CredParam /\ ssm[PASSWORD_PARAM] = CredParam
    /\ PutFailed(r) =>
         /\ status[r] = "exit1"
         /\ \E i \in 1..Len(logs[r]) : logs[r][i] = Error(MSG_STORE_ERR)

(***************************************************************************)
(* C14: Every run that aborts has logged at least one line of level ERROR  *)
(* before, whatever the kind of the error: credential store, provider      *)
(* transport, provider logic, key resolution or parameter store.           *)
(***************************************************************************)
C14_AbortIsLogged ==
  \A r \in Slots :
    pc[r] = "Done" /\ (status[r] \in {"exit1", "RequestException"} \/ AcquireFailed(r))
      => LoggedError(r)

\* A request to the identity provider raised in run r.
TransportFailed(r) == status[r] = "RequestException"

(***************************************************************************)
(* C15: A transport failure of any request to the identity provider (the   *)
(* first token request, the list request, a revoke request, the retried    *)
(* token request) is not caught: it ends the run at once, with that        *)
(* request as the last call of the run, and the run makes no describe_key  *)
(* and no put_parameter call.                                              *)
(***************************************************************************)
C15_TransportErrorEndsRun ==
  /\ [](\A r \in Slots :
          TransportFailed(r) =>
            /\ pc[r] = "Done"
            /\ IsHttp(calls[r][Len(calls[r])])
            /\ Count(r, "describe_key") = 0 /\ Count(r, "put_parameter") = 0
            /\ puts[r] = <<>>)
  /\ [][\A r \in Slots :
          TransportFailed(r) /\ pc[r] = "Done" =>
            \/ calls'[r] = calls[r] /\ logs'[r] = logs[r]
            \/ pc'[r] = "GetUsername" /\ status'[r] = "running"]_vars

\* The revoke request for the second listed token raised.
C15_Witness ==
  \E r \in Slots :
    /\ TransportFailed(r)
    /\ Count(r, "revoke_token") = 2
    /\ calls[r][Len(calls[r])].op = "revoke_token"

\* The last answer to a token request of run r.
LastResp(r) == IF Count(r, "post_token") = 2 THEN retryResp[r] ELSE firstResp[r]

\* The last answer is an error that starts the remediation.
Remediated(r) == Count(r, "post_token") = 1 /\ FirstIsMaxLimit(r)

(***************************************************************************)
(* C16 as claimed: generate_token returns the access_token whenever the    *)
(* last token response has an access_token field, returns False whenever   *)
(* it has an error field that is not remediated, and raises for no shape   *)
(* of the response (error only, token only, both, neither).                *)
(***************************************************************************)
C16_OutcomeByShape ==
  \A r \in Slots :
    /\ status[r] # "KeyError"
    /\ HasToken(LastResp(r)) =>
         token[r] = LastResp(r).access_token /\ Truthy(token[r])
    /\ HasError(LastResp(r)) /\ ~Remediated(r) /\ ~HasToken(LastResp(r)) =>
         token[r] = PyFalse

(***************************************************************************)
(* C16 as amended: generate_token returns False whenever the last token    *)
(* response has an error field that is not remediated, also when it has an *)
(* access_token field as well; it returns the access_token when the        *)
(* response has that field and no error field; a response with neither     *)
(* field raises KeyError, and generate_token returns nothing.              *)
(***************************************************************************)
C16_ErrorFieldFirst ==
  \A r \in Slots :
    /\ HasError(LastResp(r)) /\ ~Remediated(r) =>
         Returned(r) /\ token[r] = PyFalse
    /\ HasToken(LastResp(r)) /\ ~HasError(LastResp(r)) =>
         /\ Returned(r) \/ pc[r] = "Done"
         /\ token[r] = LastResp(r).access_token /\ Truthy(token[r])
    /\ status[r] = "KeyError" =>
         /\ LastResp(r) = EmptyJson
         /\ ~Returned(r)
         /\ calls[r][Len(calls[r])].op = "post_token"
    /\ Returned(r) => HasError(LastResp(r)) \/ HasToken(LastResp(r))

\* The retried request was answered with both fields: False is returned.
C16_Witness ==
  \E r \in Slots :
    /\ Count(r, "post_token") = 2
    /\ HasError(retryResp[r]) /\ HasToken(retryResp[r])
    /\ pc[r] = "DescribeKey" /\ token[r] = PyFalse

(***************************************************************************)
(* C17: Every run ends: if every external call returns or raises, a run    *)
(* that was invoked reaches the end of the handler.  The revoke loop sends *)
(* one request for each listed token, and no call is made a second time,   *)
(* except the one retry of the token request.                              *)
(***************************************************************************)
C17_Terminates ==
  /\ \A r \in Slots : [](pc[r] \notin {"NotInvoked", "Done"} => <>(pc[r] = "Done"))
  /\ [](\A r \in Slots :
          /\ Count(r, "get_parameter") <= 2
          /\ Count(r, "post_token") <= 2
          /\ Count(r, "get_tokens") <= 1
          /\ Count(r, "describe_key") <= 1
          /\ Count(r, "put_parameter") <= 1
          /\ Count(r, "revoke_token") = Cardinality(Revoked(r))
          /\ Count(r, "revoke_token") <= Cardinality(TokensOf(listed[r]))
          /\ pc[r] = "RetryPost" \/ Returned(r) =>
               Count(r, "revoke_token") = Cardinality(TokensOf(listed[r])))

\* A run has ended after a remediation that revoked two tokens.
C17_Witness ==
  \E r \in Slots :
    pc[r] = "Done" /\ Count(r, "revoke_token") = 2 /\ Count(r, "post_token") = 2

(***************************************************************************)
(* C18: "Successfully generated EDL bearer token." is logged only in a run *)
(* in which generate_token returns a token, never in a run in which it     *)
(* returns False, the failed retry after a remediation included.           *)
(***************************************************************************)
C18_SuccessLineMeansToken ==
  \A r \in Slots :
    (\E i \in 1..Len(logs[r]) : logs[r][i] = Info(MSG_TOKEN_OK)) =>
      /\ Truthy(token[r])
      /\ \E resp \in Responses(r) : HasToken(resp) /\ resp.access_token = token[r]

\* The provider no longer accepts token t, and run r has asked to revoke it.
RevokedBy(r, t) == t \in Revoked(r) /\ t \notin live

\* bearer--edl--token exists and holds a token that run r has revoked.
StoredRevokedBy(r) ==
  ssm[TOKEN_PARAM].Version > 0 /\ RevokedBy(r, ssm[TOKEN_PARAM].Value)

(***************************************************************************)
(* C19 as claimed: a run that does not overlap with another never leaves   *)
(* in bearer--edl--token a token it has revoked itself: if it revokes the  *)
(* stored token it ends with a new, valid token stored, and if it aborts   *)
(* it has not revoked the stored token.                                    *)
(***************************************************************************)
C19_NeverLeavesRevoked ==
  \A r \in Slots : pc[r] = "Done" => ~StoredRevokedBy(r)

(***************************************************************************)
(* C19 as amended: a run that does not overlap with another and exits with *)
(* status 0 never leaves in bearer--edl--token a token it has revoked: the *)
(* parameter then holds the new token, which the run has not revoked and   *)
(* which is valid at the provider.  A run that has revoked the stored      *)
(* token and then aborts leaves the revoked token in the parameter.        *)
(***************************************************************************)
C19_ExitZeroLeavesValid ==
  /\ [](\A r \in Slots :
          status[r] = "exit0" =>
            /\ ~StoredRevokedBy(r)
            /\ ssm[TOKEN_PARAM].Value = token[r]
            /\ token[r] \notin Revoked(r)
            /\ token[r] \in live)
  /\ [][\A r \in Slots :
          StoredRevokedBy(r) /\ pc[r] # "Done" /\ pc'[r] = "Done" /\ status'[r] # "exit0"
            => ssm' = ssm /\ live' = live]_vars

\* The run has revoked the stored token in its remediation, got a new token
\* and exited with 0 after it wrote the new token over the revoked one.
C19_Witness ==
  \E r \in Slots :
    /\ status[r] = "exit0"
    /\ ssm[TOKEN_PARAM].Version = 2
    /\ 1 \in Revoked(r) /\ 1 \notin live
    /\ ssm[TOKEN_PARAM].Value = token[r]

\* Position of the last request `op` of run r (0 if there is none).
LastIndex(r, op) ==
  IF Count(r, op) = 0 THEN 0
  ELSE CHOOSE i \in 1..Len(calls[r]) :
         /\ calls[r][i].op = op
         /\ \A j \in (i + 1)..Len(calls[r]) : calls[r][j].op # op

(***************************************************************************)
(* C20: In a run every revoke request is for an access_token of the run's  *)
(* own list response and comes before the retried token request, so that   *)
(* the token the run returns and stores is never one it has revoked.       *)
(***************************************************************************)
C20_RevokesBeforeRetry ==
  \A r \in Slots :
    /\ Revoked(r) \subseteq TokensOf(listed[r])
    /\ Count(r, "revoke_token") > 0 =>
         /\ FirstIndex(r, "get_tokens") < FirstIndex(r, "revoke_token")
         /\ Count(r, "post_token") = 2 =>
              LastIndex(r, "revoke_token") < LastIndex(r, "post_token")
    /\ Truthy(token[r]) => token[r] \notin Revoked(r)
    /\ \A i \in 1..Len(puts[r]) : puts[r][i].Value \notin Revoked(r)

\* A run that revoked two tokens and then put the token of the retry.
C20_Witness ==
  \E r \in Slots :
    /\ Cardinality(Revoked(r)) = 2
    /\ Len(puts[r]) = 1 /\ puts[r][1].Value = token[r] /\ Truthy(token[r])
    /\ status[r] = "exit0"

====
